---- MODULE Spec2Model ----
(***************************************************************************)
(* Model of backend/server.js: the school scoring function calculateScore  *)
(* and the Express route handlers around it.                               *)
(*                                                                         *)
(* JavaScript values are tagged records [t, v]:                            *)
(*   "undefined" (also an absent property), "null", "bool", "num",         *)
(*   "str" (a sequence of one-character strings) and "arr".                *)
(***************************************************************************)
EXTENDS Integers, Sequences, FiniteSets, TLC

VARIABLES school, user, result,
          store, reqs, uploadsDir, files, clock, catchesRejections

vars == <<school, user, result, store, reqs, uploadsDir, files, clock, catchesRejections>>

scoreVars == <<school, user, result>>
serverVars == <<store, reqs, uploadsDir, files, clock, catchesRejections>>

-----------------------------------------------------------------------------
(* JavaScript values *)

Undef == [t |-> "undefined", v |-> 0]
Null == [t |-> "null", v |-> 0]
Bool(b) == [t |-> "bool", v |-> b]
Num(n) == [t |-> "num", v |-> n]
Str(s) == [t |-> "str", v |-> s]
Arr(a) == [t |-> "arr", v |-> a]

UpperAlpha == <<"A","B","C","D","E","F","G","H","I","J","K","L","M",
                "N","O","P","Q","R","S","T","U","V","W","X","Y","Z">>
LowerAlpha == <<"a","b","c","d","e","f","g","h","i","j","k","l","m",
                "n","o","p","q","r","s","t","u","v","w","x","y","z">>

LowerChar(c) ==
  IF \E i \in 1..26 : UpperAlpha[i] = c
  THEN LowerAlpha[CHOOSE i \in 1..26 : UpperAlpha[i] = c]
  ELSE c

\* String.prototype.toLowerCase
toLowerCase(s) == [i \in 1..Len(s) |-> LowerChar(s[i])]

\* String.prototype.includes: sub occurs in s as a contiguous run
includes(s, sub) ==
  \E k \in 0..(Len(s) - Len(sub)) :
     \A i \in 1..Len(sub) : s[k + i] = sub[i]

Digits == <<"0","1","2","3","4","5","6","7","8","9">>

RECURSIVE NatToStr(_)
NatToStr(n) ==
  IF n < 10 THEN <<Digits[n + 1]>>
  ELSE NatToStr(n \div 10) \o <<Digits[(n % 10) + 1]>>

NumToStr(n) == IF n < 0 THEN <<"-">> \o NatToStr(0 - n) ELSE NatToStr(n)

\* String(x); an array is joined with "," and its null/undefined elements
\* become empty strings (Array.prototype.join)
RECURSIVE JsString(_)
RECURSIVE JoinFrom(_, _)
JoinFrom(a, i) ==
  IF i > Len(a) THEN <<>>
  ELSE (IF i > 1 THEN <<",">> ELSE <<>>)
       \o (IF a[i].t \in {"undefined", "null"} THEN <<>> ELSE JsString(a[i]))
       \o JoinFrom(a, i + 1)
JsString(x) ==
  CASE x.t = "undefined" -> <<"u","n","d","e","f","i","n","e","d">>
    [] x.t = "null" -> <<"n","u","l","l">>
    [] x.t = "bool" -> IF x.v THEN <<"t","r","u","e">> ELSE <<"f","a","l","s","e">>
    [] x.t = "num" -> NumToStr(x.v)
    [] x.t = "str" -> x.v
    [] x.t = "arr" -> JoinFrom(x.v, 1)

\* ToBoolean
Truthy(x) ==
  CASE x.t = "undefined" -> FALSE
    [] x.t = "null" -> FALSE
    [] x.t = "bool" -> x.v
    [] x.t = "num" -> x.v # 0
    [] x.t = "str" -> Len(x.v) > 0
    [] x.t = "arr" -> TRUE

IsDigit(c) == \E i \in 1..10 : Digits[i] = c
DigitVal(c) == (CHOOSE i \in 1..10 : Digits[i] = c) - 1

RECURSIVE DigitsToNat(_)
DigitsToNat(s) ==
  IF Len(s) = 0 THEN 0
  ELSE 10 * DigitsToNat(SubSeq(s, 1, Len(s) - 1)) + DigitVal(s[Len(s)])

NaN == [nan |-> TRUE, n |-> 0]
Number(n) == [nan |-> FALSE, n |-> n]

\* StringToNumber for the strings of the model: "" is 0, a run of decimal
\* digits is its value, anything else is NaN
StrToNumber(s) ==
  IF Len(s) = 0 THEN Number(0)
  ELSE IF \A i \in 1..Len(s) : IsDigit(s[i]) THEN Number(DigitsToNat(s))
  ELSE NaN

\* ToNumber
ToNumber(x) ==
  CASE x.t = "undefined" -> NaN
    [] x.t = "null" -> Number(0)
    [] x.t = "bool" -> Number(IF x.v THEN 1 ELSE 0)
    [] x.t = "num" -> Number(x.v)
    [] x.t = "str" -> StrToNumber(x.v)
    [] x.t = "arr" -> StrToNumber(JsString(x))

\* n <= y for a number n: y is converted with ToNumber, NaN compares false
NumLE(n, y) ==
  LET m == ToNumber(y) IN (~m.nan) /\ n <= m.n

\* x === s for a string literal s
StrictEqStr(x, s) == x.t = "str" /\ x.v = s

\* x === true
StrictEqTrue(x) == x.t = "bool" /\ x.v = TRUE

-----------------------------------------------------------------------------
(* calculateScore *)

ClassPoints == 30
LocationPoints == 20
TypePoints == 20
DistancePoints == 20
FeePoints == 20
MiddayPoints == 5
GirlSupportPoints == 5
LowFeeCap == 500
MediumFeeCap == 1500

s_free == <<"f","r","e","e">>
s_low == <<"l","o","w">>
s_medium == <<"m","e","d","i","u","m">>

Criteria == <<"class", "location", "type", "distance", "fee", "midday", "girlSupport">>

Pts(n) == [threw |-> FALSE, pts |-> n]
TypeError == [threw |-> TRUE, pts |-> 0]

\* school.classes.map(String).includes(String(user.class))
ClassesInclude(classes, cls) ==
  \E i \in 1..Len(classes.v) : JsString(classes.v[i]) = JsString(cls)

\* CLASS with === in place of the String() comparison
ClassStepNoCoercion(s, u) ==
  IF s.classes.t # "undefined" /\ s.classes.t # "null"
  THEN IF s.classes.t = "arr"
       THEN Pts(IF \E i \in 1..Len(s.classes.v) : s.classes.v[i] = u.class
                THEN ClassPoints ELSE 0)
       ELSE Pts(IF s.classes = u.class THEN ClassPoints ELSE 0)
  ELSE Pts(0)

\* CLASS
ClassStep(s, u) ==
  IF s.classes.t # "undefined" /\ s.classes.t # "null"
  THEN IF s.classes.t = "arr"
       THEN Pts(IF ClassesInclude(s.classes, u.class) THEN ClassPoints ELSE 0)
       ELSE Pts(IF JsString(s.classes) = JsString(u.class) THEN ClassPoints ELSE 0)
  ELSE Pts(0)

\* LOCATION: a.toLowerCase() is a TypeError when a is truthy and not a string
LocationStep(s, u) ==
  IF Truthy(s.location) /\ Truthy(u.location)
  THEN IF s.location.t # "str" \/ u.location.t # "str"
       THEN TypeError
       ELSE Pts(IF includes(toLowerCase(s.location.v), toLowerCase(u.location.v))
                THEN LocationPoints ELSE 0)
  ELSE Pts(0)

\* TYPE
TypeStep(s, u) ==
  IF Truthy(s.type) /\ Truthy(u.type)
  THEN IF s.type.t # "str" \/ u.type.t # "str"
       THEN TypeError
       ELSE Pts(IF toLowerCase(s.type.v) = toLowerCase(u.type.v)
                THEN TypePoints ELSE 0)
  ELSE Pts(0)

\* DISTANCE
DistanceStep(s, u) ==
  Pts(IF s.distence.t = "num" /\ NumLE(s.distence.v, u.maxDistance)
      THEN DistancePoints ELSE 0)

\* FEE with < in place of <= at the caps
FeeStepStrictCap(s, u) ==
  Pts(IF s.fee.t = "num" /\
         \/ StrictEqStr(u.fee, s_free) /\ s.fee.v = 0
         \/ StrictEqStr(u.fee, s_low) /\ s.fee.v < LowFeeCap
         \/ StrictEqStr(u.fee, s_medium) /\ s.fee.v < MediumFeeCap
      THEN FeePoints ELSE 0)

\* FEE
FeeStep(s, u) ==
  Pts(IF s.fee.t = "num" /\
         \/ StrictEqStr(u.fee, s_free) /\ s.fee.v = 0
         \/ StrictEqStr(u.fee, s_low) /\ s.fee.v <= LowFeeCap
         \/ StrictEqStr(u.fee, s_medium) /\ s.fee.v <= MediumFeeCap
      THEN FeePoints ELSE 0)

\* SCHEMES
MiddayStep(s, u) ==
  Pts(IF Truthy(u.middayMeal) /\ StrictEqTrue(s.midday) THEN MiddayPoints ELSE 0)

GirlSupportStep(s, u) ==
  Pts(IF Truthy(u.girlChild) /\ StrictEqTrue(s.girlSupport) THEN GirlSupportPoints ELSE 0)

Step(c, s, u) ==
  CASE c = "class" -> ClassStep(s, u)
    [] c = "location" -> LocationStep(s, u)
    [] c = "type" -> TypeStep(s, u)
    [] c = "distance" -> DistanceStep(s, u)
    [] c = "fee" -> FeeStep(s, u)
    [] c = "midday" -> MiddayStep(s, u)
    [] c = "girlSupport" -> GirlSupportStep(s, u)

NoPts == [c \in {Criteria[i] : i \in 1..Len(Criteria)} |-> 0]

\* The statements of calculateScore in order; a TypeError ends the call
\* without a return value.  pts records what each evaluated criterion added.
RECURSIVE RunFrom(_, _, _, _)
RunFrom(s, u, i, acc) ==
  IF i > Len(Criteria) THEN acc
  ELSE LET r == Step(Criteria[i], s, u) IN
       IF r.threw
       THEN [acc EXCEPT !.threw = TRUE]
       ELSE RunFrom(s, u, i + 1,
                    [acc EXCEPT !.score = @ + r.pts,
                                !.pts[Criteria[i]] = r.pts,
                                !.done = @ \cup {Criteria[i]}])

calculateScore(s, u) ==
  RunFrom(s, u, 1, [threw |-> FALSE, score |-> 0, pts |-> NoPts, done |-> {}])

-----------------------------------------------------------------------------
(* Inputs of the scoring function *)

MaxClassesLen == 2

s_10 == <<"1","0">>
s_9 == <<"9">>
s_8 == <<"8">>
s_Delhi == <<"D","e","l","h","i">>
s_delhi == <<"d","e","l","h","i">>
s_DELHI == <<"D","E","L","H","I">>
s_NewDelhi == <<"N","e","w"," ","D","e","l","h","i">>
s_pune == <<"p","u","n","e">>
s_Public == <<"P","u","b","l","i","c">>
s_public == <<"p","u","b","l","i","c">>
s_PUBLIC == <<"P","U","B","L","I","C">>
s_pub == <<"p","u","b">>
s_Private == <<"P","r","i","v","a","t","e">>
s_far == <<"f","a","r">>
s_high == <<"h","i","g","h">>
s_yes == <<"y","e","s">>
s_true == <<"t","r","u","e">>
s_undefined == <<"u","n","d","e","f","i","n","e","d">>
s_0 == <<"0">>
s_5 == <<"5">>

SeqsUpTo(S, n) == UNION {[1..k -> S] : k \in 1..n}

\* a school record with no field set (every property absent)
EmptySchool ==
  [name |-> Undef, classes |-> Undef, location |-> Undef, type |-> Undef,
   distence |-> Undef, fee |-> Undef, midday |-> Undef, girlSupport |-> Undef,
   score |-> Undef]

\* a request body with no field set
EmptyUser ==
  [class |-> Undef, location |-> Undef, type |-> Undef, maxDistance |-> Undef,
   fee |-> Undef, middayMeal |-> Undef, girlChild |-> Undef]

\* every criterion present or absent, satisfied or not
AllCriteriaSchools ==
  {[EmptySchool EXCEPT !.classes = c, !.location = l, !.type = t, !.distence = d,
                       !.fee = f, !.midday = m, !.girlSupport = g] :
     c \in {Undef, Str(s_10)}, l \in {Undef, Str(s_Delhi)}, t \in {Undef, Str(s_Public)},
     d \in {Undef, Num(5)}, f \in {Undef, Num(0)}, m \in {Bool(FALSE), Bool(TRUE)},
     g \in {Bool(FALSE), Bool(TRUE)}}
AllCriteriaUsers ==
  {[EmptyUser EXCEPT !.class = c, !.location = l, !.type = t, !.maxDistance = d,
                     !.fee = f, !.middayMeal = m, !.girlChild = g] :
     c \in {Num(9), Num(10)}, l \in {Undef, Str(s_delhi)}, t \in {Undef, Str(s_public)},
     d \in {Undef, Num(10)}, f \in {Undef, Str(s_free)}, m \in {Undef, Bool(TRUE)},
     g \in {Undef, Bool(TRUE)}}

\* class labels: scalars and collections
ClassScalars ==
  {Undef, Null, Num(10), Num(9), Str(s_10), Str(s_9), Str(s_undefined), Bool(TRUE)}
ClassElems == {Str(s_10), Str(s_9), Num(10), Null}
ClassSchools ==
  {[EmptySchool EXCEPT !.classes = c] :
     c \in ClassScalars \cup {Arr(a) : a \in SeqsUpTo(ClassElems, MaxClassesLen)}}
ClassUsers ==
  {[EmptyUser EXCEPT !.class = c] :
     c \in {Undef, Null, Num(10), Num(9), Str(s_10), Str(s_true)}}

\* distance and fee: numbers around the caps, absent and non-numeric values
DistFeeSchools ==
  {[EmptySchool EXCEPT !.distence = d, !.fee = f] :
     d \in {Undef, Null, Num(0), Num(5), Num(10), Num(11), Str(s_5), Bool(TRUE)},
     f \in {Undef, Null, Num(0), Num(1), Num(LowFeeCap), Num(LowFeeCap + 1),
            Num(MediumFeeCap), Num(MediumFeeCap + 1), Str(s_0)}}
DistFeeUsers ==
  {[EmptyUser EXCEPT !.maxDistance = d, !.fee = f] :
     d \in {Undef, Null, Num(10), Str(s_10), Str(s_far)},
     f \in {Undef, Str(s_free), Str(s_low), Str(s_medium), Str(s_high), Num(0)}}

\* location and type: case variants, substrings, empty and non-string values
TextSchools ==
  {[EmptySchool EXCEPT !.classes = Str(s_10), !.location = l, !.type = t,
                       !.distence = Num(5)] :
     l \in {Undef, Str(<<>>), Str(s_NewDelhi), Num(5), Num(0), Bool(TRUE),
            Arr(<<Str(s_Delhi)>>)},
     t \in {Undef, Str(s_Public), Str(s_Private), Num(1)}}
TextUsers ==
  {[EmptyUser EXCEPT !.class = Num(10), !.location = l, !.type = t,
                     !.maxDistance = Num(10)] :
     l \in {Undef, Str(<<>>), Str(s_DELHI), Str(s_pune), Num(7)},
     t \in {Undef, Str(s_PUBLIC), Str(s_pub), Bool(TRUE)}}

\* scheme flags: true, false, absent and truthy non-booleans
SchemeSchools ==
  {[EmptySchool EXCEPT !.midday = m, !.girlSupport = g] :
     m \in {Undef, Bool(TRUE), Bool(FALSE), Str(s_true), Num(1)},
     g \in {Undef, Bool(TRUE), Bool(FALSE), Str(s_true)}}
SchemeUsers ==
  {[EmptyUser EXCEPT !.middayMeal = m, !.girlChild = g] :
     m \in {Undef, Bool(TRUE), Bool(FALSE), Str(s_yes), Str(<<>>), Num(0)},
     g \in {Undef, Bool(TRUE), Bool(FALSE), Str(s_yes)}}

NotCalled == [called |-> FALSE, threw |-> FALSE, score |-> 0, pts |-> NoPts, done |-> {}]
Called(r) == [called |-> TRUE, threw |-> r.threw, score |-> r.score, pts |-> r.pts,
              done |-> r.done]

ServerIdle ==
  /\ store = <<>>
  /\ reqs = <<>>
  /\ uploadsDir = FALSE
  /\ files = {}
  /\ clock = 0
  /\ catchesRejections = FALSE

InitScore ==
  /\ \/ school \in AllCriteriaSchools /\ user \in AllCriteriaUsers
     \/ school \in ClassSchools /\ user \in ClassUsers
     \/ school \in DistFeeSchools /\ user \in DistFeeUsers
     \/ school \in TextSchools /\ user \in TextUsers
     \/ school \in SchemeSchools /\ user \in SchemeUsers
  /\ result = NotCalled
  /\ ServerIdle

\* one call calculateScore(school, user)
Score ==
  /\ ~result.called
  /\ result' = Called(calculateScore(school, user))
  /\ UNCHANGED <<school, user, serverVars>>

NextScore == Score

SpecScore == InitScore /\ [][NextScore]_vars

-----------------------------------------------------------------------------
(* The route handlers *)

Threshold == 30
MaxRequests == 2
MaxSchools == 1
MaxStored == 3
MaxClock == 1

Requests == 1..MaxRequests

\* { score: calculateScore(s, user), ...s }: a stored score field wins
WithScoreKeepStored(s, n) ==
  IF s.score.t = "undefined" THEN [s EXCEPT !.score = Num(n)] ELSE s

\* { ...s, score: calculateScore(s, user) }
WithScore(s, n) == [s EXCEPT !.score = Num(n)]

\* .filter((s) => s.score >= 30)
Qualifies(item) == item.score.v >= Threshold

\* the comparator (a, b) => b.score - a.score
Compare(a, b) == b.score.v - a.score.v

\* Array.prototype.sort is stable: x goes behind every element that the
\* comparator does not order after it
RECURSIVE Insert(_, _)
Insert(sorted, x) ==
  IF Len(sorted) = 0 THEN <<x>>
  ELSE IF Compare(sorted[Len(sorted)], x) <= 0
       THEN Append(sorted, x)
       ELSE Append(Insert(SubSeq(sorted, 1, Len(sorted) - 1), x), sorted[Len(sorted)])

RECURSIVE SortFrom(_, _, _)
SortFrom(items, i, acc) ==
  IF i > Len(items) THEN acc ELSE SortFrom(items, i + 1, Insert(acc, items[i]))

Sort(items) == SortFrom(items, 1, <<>>)

NoBody == [kind |-> "none", list |-> <<>>]
ListBody(l) == [kind |-> "list", list |-> l]
ErrorBody == [kind |-> "error", list |-> <<>>]
ReplyBody == [kind |-> "reply", list |-> <<>>]
MessageBody == [kind |-> "message", list |-> <<>>]
StatusBody == [kind |-> "status", list |-> <<>>]

Response(st, b) == [status |-> st, body |-> b]
NoResponse == Response(0, NoBody)

\* the body of the try block of /api/recommend once the snapshot is there:
\* an exception of calculateScore leaves the pipeline for the catch clause
Recommendations(schools, u) ==
  IF \E i \in 1..Len(schools) : calculateScore(schools[i], u).threw
  THEN Response(500, ErrorBody)
  ELSE LET scored == [i \in 1..Len(schools) |->
                        WithScore(schools[i], calculateScore(schools[i], u).score)]
       IN Response(200, ListBody(Sort(SelectSeq(scored, Qualifies))))

IdleRequest ==
  [route |-> "none", pc |-> "idle", body |-> EmptyUser, reads |-> 0,
   readFailed |-> FALSE, completionFailed |-> FALSE, resp |-> NoResponse,
   unhandled |-> FALSE]

\* user kept in a variable shared by the handlers: the body of the latest
\* request
RequestBodyShared(r) ==
  LET started == {k \in DOMAIN reqs : reqs[k].route = "recommend"}
  IN reqs[CHOOSE k \in started : \A j \in started : j <= k].body

\* const user = req.body: the body of the request being handled
RequestBody(r) == reqs[r].body

\* a handler answers
Respond(r, resp) ==
  reqs' = [reqs EXCEPT ![r].pc = "done", ![r].resp = resp]

\* an async handler without try/catch rejects: the framework either forwards
\* the rejection to its error handler (a 500 answer) or never sees it, and
\* then the request gets no answer and the rejection is unhandled
Reject(r, rq) ==
  IF catchesRejections
  THEN reqs' = [reqs EXCEPT ![r] = [rq EXCEPT !.pc = "done", !.resp = Response(500, ErrorBody)]]
  ELSE reqs' = [reqs EXCEPT ![r] = [rq EXCEPT !.pc = "done", !.unhandled = TRUE]]

\* a request arrives at a route that starts with the store read
StartRead(r, route, body) ==
  /\ reqs[r].pc = "idle"
  /\ reqs' = [reqs EXCEPT ![r].route = route, ![r].pc = "awaitRead",
                          ![r].body = body, ![r].reads = @ + 1]

RecommendUsers ==
  {[EmptyUser EXCEPT !.class = Num(10), !.location = Str(s_delhi),
                     !.type = Str(s_public), !.maxDistance = Num(10)],
   [EmptyUser EXCEPT !.class = Num(9)]}

\* POST /api/recommend
StartRecommend(r) ==
  /\ \E u \in RecommendUsers : StartRead(r, "recommend", u)
  /\ UNCHANGED <<scoreVars, store, uploadsDir, files, clock, catchesRejections>>

RecommendReadOk(r) ==
  /\ reqs[r].route = "recommend" /\ reqs[r].pc = "awaitRead"
  /\ Respond(r, Recommendations(store, RequestBody(r)))
  /\ UNCHANGED <<scoreVars, store, uploadsDir, files, clock, catchesRejections>>

RecommendReadFail(r) ==
  /\ reqs[r].route = "recommend" /\ reqs[r].pc = "awaitRead"
  /\ reqs' = [reqs EXCEPT ![r].pc = "done", ![r].readFailed = TRUE,
                          ![r].resp = Response(500, ErrorBody)]
  /\ UNCHANGED <<scoreVars, store, uploadsDir, files, clock, catchesRejections>>

\* GET /api/schools
StartSchools(r) ==
  /\ StartRead(r, "schools", EmptyUser)
  /\ UNCHANGED <<scoreVars, store, uploadsDir, files, clock, catchesRejections>>

SchoolsReadOk(r) ==
  /\ reqs[r].route = "schools" /\ reqs[r].pc = "awaitRead"
  /\ Respond(r, Response(200, ListBody(store)))
  /\ UNCHANGED <<scoreVars, store, uploadsDir, files, clock, catchesRejections>>

SchoolsReadFail(r) ==
  /\ reqs[r].route = "schools" /\ reqs[r].pc = "awaitRead"
  /\ Reject(r, [reqs[r] EXCEPT !.readFailed = TRUE])
  /\ UNCHANGED <<scoreVars, store, uploadsDir, files, clock, catchesRejections>>

\* POST /api/chatbot/ask: generateChatbotResponse reads the store, then
\* calls the completion service
StartChatbot(r) ==
  /\ StartRead(r, "chatbot", EmptyUser)
  /\ UNCHANGED <<scoreVars, store, uploadsDir, files, clock, catchesRejections>>

ChatbotReadOk(r) ==
  /\ reqs[r].route = "chatbot" /\ reqs[r].pc = "awaitRead"
  /\ reqs' = [reqs EXCEPT ![r].pc = "awaitCompletion"]
  /\ UNCHANGED <<scoreVars, store, uploadsDir, files, clock, catchesRejections>>

ChatbotReadFail(r) ==
  /\ reqs[r].route = "chatbot" /\ reqs[r].pc = "awaitRead"
  /\ Reject(r, [reqs[r] EXCEPT !.readFailed = TRUE])
  /\ UNCHANGED <<scoreVars, store, uploadsDir, files, clock, catchesRejections>>

CompletionOk(r) ==
  /\ reqs[r].route = "chatbot" /\ reqs[r].pc = "awaitCompletion"
  /\ Respond(r, Response(200, ReplyBody))
  /\ UNCHANGED <<scoreVars, store, uploadsDir, files, clock, catchesRejections>>

CompletionFail(r) ==
  /\ reqs[r].route = "chatbot" /\ reqs[r].pc = "awaitCompletion"
  /\ Reject(r, [reqs[r] EXCEPT !.completionFailed = TRUE])
  /\ UNCHANGED <<scoreVars, store, uploadsDir, files, clock, catchesRejections>>

\* POST /api/upload: multer's destination creates "uploads" when it is
\* missing, filename is Date.now() + "-" + file.originalname
OriginalNames == {"form.pdf"}
FileName(now, original) == <<now, original>>

FileSizes == {"small", "overLimit"}

\* the destination callback: if (!fs.existsSync(uploadDir)) fs.mkdirSync(uploadDir)
Destination(dirExists) == IF ~dirExists THEN TRUE ELSE dirExists

\* a file over limits.fileSize makes multer remove what it wrote and pass a
\* MulterError to next(), which the framework's error handler answers
Upload(r) ==
  /\ reqs[r].pc = "idle"
  /\ uploadsDir' = Destination(uploadsDir)
  /\ \E original \in OriginalNames, size \in FileSizes :
       IF size = "small"
       THEN /\ files' = files \cup {FileName(clock, original)}
            /\ reqs' = [reqs EXCEPT ![r].route = "upload", ![r].pc = "done",
                                    ![r].resp = Response(200, MessageBody)]
       ELSE /\ files' = files
            /\ reqs' = [reqs EXCEPT ![r].route = "upload", ![r].pc = "done",
                                    ![r].resp = Response(500, ErrorBody)]
  /\ UNCHANGED <<scoreVars, store, clock, catchesRejections>>

\* GET /api/health
Health(r) ==
  /\ reqs[r].pc = "idle"
  /\ reqs' = [reqs EXCEPT ![r].route = "health", ![r].pc = "done",
                          ![r].resp = Response(200, StatusBody)]
  /\ UNCHANGED <<scoreVars, store, uploadsDir, files, clock, catchesRejections>>

\* Date.now() advances
Tick ==
  /\ clock < MaxClock
  /\ clock' = clock + 1
  /\ UNCHANGED <<scoreVars, store, reqs, uploadsDir, files, catchesRejections>>

\* stored school records
JustClass == [EmptySchool EXCEPT !.name = Str(<<"C">>), !.classes = Str(s_10)]
NumericLocation ==
  [EmptySchool EXCEPT !.name = Str(<<"F">>), !.classes = Str(s_10), !.location = Num(5)]
FullMatch ==
  [EmptySchool EXCEPT !.name = Str(<<"A">>), !.classes = Str(s_10),
                      !.location = Str(s_Delhi), !.type = Str(s_Public),
                      !.distence = Num(5)]
ClassAndLocation ==
  [EmptySchool EXCEPT !.name = Str(<<"B">>), !.classes = Arr(<<Str(s_9), Str(s_10)>>),
                      !.location = Str(s_NewDelhi)]
StoredHighScore ==
  [EmptySchool EXCEPT !.name = Str(<<"D">>), !.classes = Str(s_8),
                      !.distence = Num(5), !.score = Num(99)]
StoredLowScore ==
  [EmptySchool EXCEPT !.name = Str(<<"E">>), !.classes = Num(10), !.score = Num(5)]

SmallSchools == {JustClass, NumericLocation}
RankSchools ==
  {JustClass, NumericLocation, FullMatch, ClassAndLocation, StoredHighScore, StoredLowScore}

Stores(S, n) == {<<>>} \cup SeqsUpTo(S, n)

ScoreIdle ==
  /\ school = EmptySchool
  /\ user = EmptyUser
  /\ result = NotCalled

Init ==
  /\ ScoreIdle
  /\ store \in Stores(SmallSchools, MaxSchools)
  /\ reqs = [r \in Requests |-> IdleRequest]
  /\ uploadsDir \in BOOLEAN
  /\ files = {}
  /\ clock = 0
  /\ catchesRejections \in BOOLEAN

Next ==
  \/ \E r \in Requests : StartRecommend(r)
  \/ \E r \in Requests : RecommendReadOk(r)
  \/ \E r \in Requests : RecommendReadFail(r)
  \/ \E r \in Requests : StartSchools(r)
  \/ \E r \in Requests : SchoolsReadOk(r)
  \/ \E r \in Requests : SchoolsReadFail(r)
  \/ \E r \in Requests : StartChatbot(r)
  \/ \E r \in Requests : ChatbotReadOk(r)
  \/ \E r \in Requests : ChatbotReadFail(r)
  \/ \E r \in Requests : CompletionOk(r)
  \/ \E r \in Requests : CompletionFail(r)
  \/ \E r \in Requests : Upload(r)
  \/ \E r \in Requests : Health(r)
  \/ Tick

Spec == Init /\ [][Next]_vars

\* one recommendation request against a larger store
InitRecommend ==
  /\ ScoreIdle
  /\ store \in Stores(RankSchools, MaxStored)
  /\ reqs = [r \in {1} |-> IdleRequest]
  /\ uploadsDir = FALSE
  /\ files = {}
  /\ clock = 0
  /\ catchesRejections \in BOOLEAN

NextRecommend ==
  \/ StartRecommend(1)
  \/ RecommendReadOk(1)
  \/ RecommendReadFail(1)

SpecRecommend == InitRecommend /\ [][NextRecommend]_vars

-----------------------------------------------------------------------------
(* Properties of calculateScore, checked under SpecScore *)

\* The criteria as the specification's table states them.
ClassHolds(s, u) ==
  /\ s.classes.t \notin {"undefined", "null"}
  /\ LET labels == IF s.classes.t = "arr"
                   THEN {JsString(s.classes.v[i]) : i \in 1..Len(s.classes.v)}
                   ELSE {JsString(s.classes)}
     IN JsString(u.class) \in labels
LocationHolds(s, u) ==
  /\ s.location.t = "str" /\ u.location.t = "str"
  /\ Len(s.location.v) > 0 /\ Len(u.location.v) > 0
  /\ includes(toLowerCase(s.location.v), toLowerCase(u.location.v))
TypeHolds(s, u) ==
  /\ s.type.t = "str" /\ u.type.t = "str"
  /\ Len(s.type.v) > 0 /\ Len(u.type.v) > 0
  /\ toLowerCase(s.type.v) = toLowerCase(u.type.v)
\* the numbers that the maxDistance values of the inputs stand for in
\* `distence <= maxDistance`
MaxDistanceBound(u) ==
  CASE u.maxDistance.t = "num" -> {u.maxDistance.v}
    [] u.maxDistance.t = "null" -> {0}
    [] u.maxDistance = Str(s_10) -> {10}
    [] OTHER -> {}
DistanceHolds(s, u) ==
  /\ s.distence.t = "num"
  /\ \E m \in MaxDistanceBound(u) : s.distence.v <= m
FeeHolds(s, u) ==
  /\ s.fee.t = "num"
  /\ \/ u.fee = Str(s_free) /\ s.fee.v = 0
     \/ u.fee = Str(s_low) /\ s.fee.v <= 500
     \/ u.fee = Str(s_medium) /\ s.fee.v <= 1500
MiddayHolds(s, u) == Truthy(u.middayMeal) /\ s.midday = Bool(TRUE)
GirlSupportHolds(s, u) == Truthy(u.girlChild) /\ s.girlSupport = Bool(TRUE)

ExpectedScore(s, u) ==
    (IF ClassHolds(s, u) THEN 30 ELSE 0)
  + (IF LocationHolds(s, u) THEN 20 ELSE 0)
  + (IF TypeHolds(s, u) THEN 20 ELSE 0)
  + (IF DistanceHolds(s, u) THEN 20 ELSE 0)
  + (IF FeeHolds(s, u) THEN 20 ELSE 0)
  + (IF MiddayHolds(s, u) THEN 5 ELSE 0)
  + (IF GirlSupportHolds(s, u) THEN 5 ELSE 0)

\* C1: calculateScore never fails: every call returns a score, also when
\* optional fields are absent or of the wrong type.
C1_NeverFails == result.called => ~result.threw

\* C2: every call of calculateScore returns an integer between 0 and 120.
C2_ScoreInRange ==
  result.called => (~result.threw /\ result.score \in 0..120)

\* C3: every call of calculateScore returns the sum of the points of exactly
\* the criteria whose condition holds.
C3_ScoreIsSum ==
  result.called => (~result.threw /\ result.score = ExpectedScore(school, user))

\* What holds of the calls that do return: the value is in range and is the
\* sum of the criteria that hold.
ReturnedScoreInRange ==
  (result.called /\ ~result.threw) => result.score \in 0..120
ReturnedScoreIsSum ==
  (result.called /\ ~result.threw) => result.score = ExpectedScore(school, user)

\* C7 as stated: for every scalar classes value c and every user.class u,
\* classes = c and classes = [c] get the same class points, and they are 30
\* exactly when String(c) equals String(u).
C7_ScalarAsCollection_AnyValue ==
  (result.called /\ school.classes.t # "arr") =>
     LET c == school.classes
         asArray == ClassStep([school EXCEPT !.classes = Arr(<<c>>)], user).pts
     IN /\ result.pts["class"] = asArray
        /\ result.pts["class"] = 30 <=> JsString(c) = JsString(user.class)

\* C7 amended: the same for every scalar c other than null and undefined;
\* a null or absent classes scores 0 class points whatever user.class is.
C7_ScalarAsCollection ==
  (result.called /\ school.classes.t # "arr") =>
     LET c == school.classes
         asArray == ClassStep([school EXCEPT !.classes = Arr(<<c>>)], user).pts
     IN IF c.t \in {"undefined", "null"}
        THEN result.pts["class"] = 0
        ELSE /\ result.pts["class"] = asArray
             /\ result.pts["class"] \in {0, 30}
             /\ result.pts["class"] = 30 <=> JsString(c) = JsString(user.class)

C7_Witness ==
  /\ result.called
  /\ school.classes = Str(s_10)
  /\ user.class = Num(10)
  /\ result.pts["class"] = 30

-----------------------------------------------------------------------------
(* Properties of the route handlers *)

Finished(r, route) == reqs[r].route = route /\ reqs[r].pc = "done"

Count(seq, x) == Cardinality({k \in 1..Len(seq) : seq[k] = x})

NonIncreasing(list) ==
  \A k \in 1..(Len(list) - 1) : list[k].score.v >= list[k + 1].score.v

\* the stored schools that qualify for u, each with its score
QualifyingItems(st, u) ==
  SelectSeq([i \in 1..Len(st) |-> [st[i] EXCEPT !.score = Num(ExpectedScore(st[i], u))]],
            LAMBDA item : item.score.v >= 30)

ExactlyQualifying(list, st, u) ==
  LET expected == QualifyingItems(st, u) IN
  /\ Len(list) = Len(expected)
  /\ \A k \in 1..Len(list) : Count(list, list[k]) = Count(expected, list[k])

\* C4: for every stored collection and every user profile the result of
\* POST /api/recommend contains exactly the schools that score >= 30, in
\* non-increasing order of score.
C4_ExactlyQualifyingSorted ==
  \A r \in DOMAIN reqs :
    (Finished(r, "recommend") /\ ~reqs[r].readFailed) =>
       /\ reqs[r].resp.status = 200
       /\ ExactlyQualifying(reqs[r].resp.body.list, store, reqs[r].body)
       /\ NonIncreasing(reqs[r].resp.body.list)

\* What holds of the lists that are sent: exactly the qualifying schools,
\* sorted.
SentListExactlyQualifyingSorted ==
  \A r \in DOMAIN reqs :
    (Finished(r, "recommend") /\ reqs[r].resp.status = 200) =>
       /\ ExactlyQualifying(reqs[r].resp.body.list, store, reqs[r].body)
       /\ NonIncreasing(reqs[r].resp.body.list)

\* C5: on every endpoint that reads the school store, a failed read is
\* answered with a 500 response after a single read attempt.
C5_ReadFailureAnswered500 ==
  \A r \in DOMAIN reqs :
    (reqs[r].pc = "done" /\ reqs[r].readFailed) =>
       /\ reqs[r].resp.status = 500
       /\ reqs[r].reads = 1

\* C6: every exception raised while handling a request is caught at the
\* request boundary and answered with an error response; none is left
\* unhandled.
C6_NoUnhandledFailure ==
  \A r \in DOMAIN reqs :
    /\ ~reqs[r].unhandled
    /\ reqs[r].pc = "done" => reqs[r].resp.status \in {200, 500}

\* the answer of a request handled alone against store contents st, given
\* the outcomes of its own store read and completion call
AloneResponses(rq, st) ==
  LET rejected == IF catchesRejections THEN Response(500, ErrorBody) ELSE NoResponse IN
  CASE rq.route = "recommend" ->
         {IF rq.readFailed THEN Response(500, ErrorBody) ELSE Recommendations(st, rq.body)}
    [] rq.route = "schools" ->
         {IF rq.readFailed THEN rejected ELSE Response(200, ListBody(st))}
    [] rq.route = "chatbot" ->
         {IF rq.readFailed \/ rq.completionFailed THEN rejected ELSE Response(200, ReplyBody)}
    [] rq.route = "upload" -> {Response(200, MessageBody), Response(500, ErrorBody)}
    [] rq.route = "health" -> {Response(200, StatusBody)}
    [] OTHER -> {NoResponse}

SchoolFields ==
  {"name", "classes", "location", "type", "distence", "fee", "midday", "girlSupport",
   "score"}

\* C10: every item of the /api/recommend response is a stored record with
\* all its fields unchanged and its score field set to calculateScore of the
\* record, also when the record had a score field of its own.
C10_ItemsCarryRecordAndScore ==
  \A r \in DOMAIN reqs :
    (Finished(r, "recommend") /\ reqs[r].resp.status = 200) =>
      \A k \in 1..Len(reqs[r].resp.body.list) :
        LET item == reqs[r].resp.body.list[k] IN
        /\ DOMAIN item = SchoolFields
        /\ \E i \in 1..Len(store) :
             /\ \A f \in SchoolFields \ {"score"} : item[f] = store[i][f]
             /\ item.score = Num(calculateScore(store[i], reqs[r].body).score)
             /\ item.score.v >= 30

C10_Witness ==
  /\ Finished(1, "recommend") /\ reqs[1].resp.status = 200
  /\ \E k \in 1..Len(reqs[1].resp.body.list) :
       /\ reqs[1].resp.body.list[k].name = StoredLowScore.name
       /\ reqs[1].resp.body.list[k].score = Num(30)
  /\ \E i \in 1..Len(store) : store[i] = StoredHighScore

====
